---- MODULE Spec2Model ----
(***************************************************************************)
(* Model of the Enigma simulator: the Enigma kit (src/src/Enigma.ts), the  *)
(* Machine (processCharacter / processMessage / reset), and the components *)
(* it drives (Wheel, Reflector, Stator, Plugboard, alphabet utilities).    *)
(*                                                                         *)
(* Conventions.  JavaScript strings are sequences of one-character         *)
(* strings.  Array indices are 0-based in the source; a TLA+ sequence s    *)
(* holds the source's arr[i] at s[i + 1].  An optional component           *)
(* (null | T) is a sequence of length 0 or 1.  The character "sz" stands   *)
(* for U+00DF, whose toUpperCase() is the two characters "SS".             *)
(***************************************************************************)
EXTENDS Integers, Sequences, FiniteSets, TLC

VARIABLES enigma, machine, op, pre, ret

vars == <<enigma, machine, op, pre, ret>>

----------------------------------------------------------------------------
(* Bounds of the model *)

MaxMsgLen == 2

----------------------------------------------------------------------------
(* common.ts *)

\* JavaScript's % : the remainder takes the sign of the dividend.
JsRem(val, max) == IF val >= 0 THEN val % max ELSE -((-val) % max)

\* Mutant of circular: the remainder alone, as % leaves it
circularTruncating(val, max) == JsRem(val, max)

\* circular(val, max), for max > 0 (the callers of the model pass numCharacters > 0)
circular(val, max) ==
  LET res == JsRem(val, max)
  IN  IF res < 0 THEN max + res ELSE res

\* circular(val, max) for any max: [thrown (the TypeError of a max <= 0), value]
circularCall(val, max) ==
  IF max <= 0 THEN [thrown |-> TRUE, value |-> 0]
  ELSE [thrown |-> FALSE, value |-> circular(val, max)]

\* The loops of findDuplicates from the pair (ind, other) on, 1-based, with
\* the tuples [index, value] found so far
RECURSIVE FindDuplicatesFrom(_, _, _, _)
FindDuplicatesFrom(arr, ind, other, dups) ==
  IF ind > Len(arr) THEN dups
  ELSE IF other > Len(arr) THEN FindDuplicatesFrom(arr, ind + 1, ind + 2, dups)
  ELSE LET known == \E d \in 1..Len(dups) : dups[d][2] = arr[other]
       IN  FindDuplicatesFrom(arr, ind, other + 1,
             IF ~known /\ arr[other] = arr[ind]
               THEN Append(dups, <<other - 1, arr[ind]>>)
               ELSE dups)

\* findDuplicates(arr): tuples [index, value]
findDuplicates(arr) == FindDuplicatesFrom(arr, 1, 2, <<>>)

\* The loops of findTupleDuplicates from the place (ind, sub) on, 1-based
RECURSIVE FindTupleDuplicatesFrom(_, _, _, _, _)
FindTupleDuplicatesFrom(arr, ind, sub, seen, dups) ==
  IF ind > Len(arr) THEN dups
  ELSE IF sub > Len(arr[ind]) THEN FindTupleDuplicatesFrom(arr, ind + 1, 1, seen, dups)
  ELSE IF arr[ind][sub] \in seen
    THEN FindTupleDuplicatesFrom(arr, ind, sub + 1, seen,
           Append(dups, <<ind - 1, arr[ind][sub], sub - 1>>))
    ELSE FindTupleDuplicatesFrom(arr, ind, sub + 1, seen \cup {arr[ind][sub]}, dups)

\* findTupleDuplicates(arr): tuples [index, value, sub-array index]
findTupleDuplicates(arr) == FindTupleDuplicatesFrom(arr, 1, 1, {}, <<>>)

\* findOutOfRanges(arr, max): tuples [index, value] of the values outside 0..max-1
RECURSIVE findOutOfRanges(_, _)
findOutOfRanges(arr, max) ==
  IF arr = <<>> THEN <<>>
  ELSE LET front == findOutOfRanges(SubSeq(arr, 1, Len(arr) - 1), max)
           val   == arr[Len(arr)]
       IN  IF val < 0 \/ val >= max THEN Append(front, <<Len(arr) - 1, val>>) ELSE front

\* found.map(([ind, val]) => new Error(...)): an Error is <<kind, index, value>>
Errors(kind, found) == [k \in 1..Len(found) |-> <<kind, found[k][1], found[k][2]>>]

----------------------------------------------------------------------------
(* alphabet.ts *)

\* String.prototype.toUpperCase on one character
ToUpperCaseChar(c) ==
  CASE c = "a" -> <<"A">>
    [] c = "b" -> <<"B">>
    [] c = "c" -> <<"C">>
    [] c = "d" -> <<"D">>
    [] c = "x" -> <<"X">>
    [] c = "sz" -> <<"S", "S">>
    [] OTHER -> <<c>>

RECURSIVE toUpperCase(_)
toUpperCase(s) ==
  IF s = <<>> THEN <<>> ELSE ToUpperCaseChar(Head(s)) \o toUpperCase(Tail(s))

WhiteSpace == {" ", "\t", "\n"}

RECURSIVE trimStart(_)
trimStart(s) ==
  IF s # <<>> /\ Head(s) \in WhiteSpace THEN trimStart(Tail(s)) ELSE s

RECURSIVE trimEnd(_)
trimEnd(s) ==
  IF s # <<>> /\ s[Len(s)] \in WhiteSpace THEN trimEnd(SubSeq(s, 1, Len(s) - 1)) ELSE s

trim(s) == trimEnd(trimStart(s))

\* s.substring(0, 1)
substring01(s) == IF s = <<>> THEN <<>> ELSE <<Head(s)>>

\* alpha.indexOf(s): 0-based place of the first occurrence of s, -1 if none;
\* the empty string occurs at 0.
indexOf(alpha, s) ==
  LET hits == { i \in 0..(Len(alpha) - Len(s)) : SubSeq(alpha, i + 1, i + Len(s)) = s }
  IN  IF hits = {} THEN -1 ELSE CHOOSE i \in hits : \A j \in hits : i <= j

\* getCharacterIndex(alpha, char, unknownAs): [thrown, value]
getCharacterIndex(alpha, char, unknownAs) ==
  LET ltr == substring01(trim(toUpperCase(char)))
      ind == indexOf(alpha, ltr)
      sub == indexOf(alpha, unknownAs)
  IN  IF ind = -1
        THEN IF sub = -1 THEN [thrown |-> TRUE, value |-> -1]
                         ELSE [thrown |-> FALSE, value |-> sub]
        ELSE [thrown |-> FALSE, value |-> ind]

\* getCharacterFromIndex(alpha, index, unknownAs): a string
getCharacterFromIndex(alpha, index, unknownAs) ==
  IF index < 0 \/ index >= Len(alpha) THEN unknownAs ELSE <<alpha[index + 1]>>

----------------------------------------------------------------------------
(* components/Stator.ts *)

\* new Stator(label, numChars, map)
Stator(label, numChars, map) ==
  [label |-> label, numCharacters |-> numChars, mapping |-> map]

\* Stator.encode(index)
StatorEncode(etw, index) == etw.mapping[circular(index, etw.numCharacters) + 1]

\* new Stator(label, numChars, map) with its checks: [thrown, value].  An
\* array argument is a sequence of length 1 holding the array, and of length
\* 0 when null is passed in its place.
NewStator(label, numChars, map) ==
  IF label = "" THEN [thrown |-> TRUE, value |-> <<>>]
  ELSE IF numChars <= 0 THEN [thrown |-> TRUE, value |-> <<>>]
  ELSE IF map = <<>> \/ Len(map[1]) # numChars THEN [thrown |-> TRUE, value |-> <<>>]
  ELSE [thrown |-> FALSE, value |-> <<Stator(label, numChars, map[1])>>]

\* Stator.validate(): the array of Errors
StatorValidate(etw) ==
  Errors("out-of-range", findOutOfRanges(etw.mapping, etw.numCharacters))
    \o Errors("duplicate", findDuplicates(etw.mapping))

----------------------------------------------------------------------------
(* components/Wheel.ts *)

\* new Wheel(label, numChars, display, wiring, notches): the state the
\* constructor leaves
Wheel(label, numChars, wiring, notches) ==
  [label |-> label, numCharacters |-> numChars, wiring |-> wiring,
   notches |-> notches, ringSetting |-> 0, startingPosition |-> 0,
   position |-> 0, init |-> FALSE]

\* new Wheel(label, numChars, display, wiring, notches) with its checks:
\* [thrown, value]; display and wiring as the array arguments of NewStator
NewWheel(label, numChars, display, wiring, notches) ==
  IF numChars <= 0 THEN [thrown |-> TRUE, value |-> <<>>]
  ELSE IF display # <<>> /\ Len(display[1]) # numChars THEN [thrown |-> TRUE, value |-> <<>>]
  ELSE IF wiring # <<>> /\ Len(wiring[1]) # numChars THEN [thrown |-> TRUE, value |-> <<>>]
  ELSE [thrown |-> FALSE,
        value |-> <<Wheel(label, numChars, IF wiring = <<>> THEN <<>> ELSE wiring[1], notches)>>]

\* get atNotch
atNotch(whl) == whl.position \in whl.notches

\* Mutant of WheelSetup: the arguments are stored as they come
WheelSetupUnwrapped(whl, ringSetting, startingPosition) ==
  [whl EXCEPT !.ringSetting = ringSetting,
              !.startingPosition = startingPosition,
              !.position = startingPosition]

\* Wheel.setup(ringSetting, startingPosition)
WheelSetup(whl, ringSetting, startingPosition) ==
  LET sp == circular(startingPosition, whl.numCharacters)
  IN  [whl EXCEPT !.ringSetting = circular(ringSetting, whl.numCharacters),
                  !.startingPosition = sp,
                  !.position = sp]

\* Mutant of WheelEncode: the sum is not brought back into 0..N-1
WheelEncodeUnwrapped(whl, index) == index + whl.position + whl.ringSetting

\* Wheel.encode(index)
WheelEncode(whl, index) ==
  circular(index + whl.position + whl.ringSetting, whl.numCharacters)

\* Mutant of WheelAdvance: the wheel stops at its last and first position
WheelAdvanceSaturating(whl, steps) ==
  LET to == whl.position + steps
  IN  [whl EXCEPT !.position = IF to < 0 THEN 0
                               ELSE IF to >= whl.numCharacters THEN whl.numCharacters - 1
                               ELSE to]

\* Wheel.advance(steps)
WheelAdvance(whl, steps) ==
  [whl EXCEPT !.position = circular(whl.position + steps, whl.numCharacters)]

\* Wheel.advance(steps): what the call returns, a sequence of length 1
\* holding a number or of length 0 for undefined.  The method is declared
\* void and has no return statement.
WheelAdvanceReturn(whl, steps) == <<>>

\* whl.position = index: position has a getter and no setter, so the
\* assignment throws a TypeError in the class's strict code and writes nothing
WheelSetPosition(whl, index) == [thrown |-> TRUE, wheel |-> whl]

\* Wheel.validate(): the array of Errors of the wiring
WheelValidate(whl) ==
  Errors("out-of-range", findOutOfRanges(whl.wiring, whl.numCharacters))
    \o Errors("duplicate", findDuplicates(whl.wiring))

\* Wheel.clone(whl): a new Wheel built from the template's immutable parts
WheelClone(whl) == Wheel(whl.label, whl.numCharacters, whl.wiring, whl.notches)

----------------------------------------------------------------------------
(* components/Reflector.ts *)

\* new Reflector(label, numChars, wiring, moving)
Reflector(label, numChars, wiring, moving) ==
  [label |-> label, numCharacters |-> numChars, wiring |-> wiring,
   moving |-> moving, startingPosition |-> 0, position |-> 0, init |-> FALSE]

\* new Reflector(label, numChars, wiring, moving) with its checks: [thrown, value]
NewReflector(label, numChars, wiring, moving) ==
  IF label = "" THEN [thrown |-> TRUE, value |-> <<>>]
  ELSE IF numChars <= 0 THEN [thrown |-> TRUE, value |-> <<>>]
  ELSE IF wiring = <<>> \/ Len(wiring[1]) # numChars THEN [thrown |-> TRUE, value |-> <<>>]
  ELSE [thrown |-> FALSE, value |-> <<Reflector(label, numChars, wiring[1], moving)>>]

\* set position(index)
ReflectorSetPosition(ukw, index) ==
  [ukw EXCEPT !.position = circular(index, ukw.numCharacters)]

\* Reflector.setup(startPosition)
ReflectorSetup(ukw, startPosition) ==
  LET sp == circular(startPosition, ukw.numCharacters)
  IN  [ukw EXCEPT !.startingPosition = sp, !.position = sp, !.init = TRUE]

\* Mutant of ReflectorEncode: an index past the end is read at the last
\* place instead of wrapping round
ReflectorEncodeClamped(ukw, index) ==
  LET char == index + ukw.position
  IN  ukw.wiring[(IF char < 0 THEN 0
                  ELSE IF char >= ukw.numCharacters THEN ukw.numCharacters - 1
                  ELSE char) + 1]

\* Reflector.encode(index)
ReflectorEncode(ukw, index) ==
  ukw.wiring[circular(index + ukw.position, ukw.numCharacters) + 1]

\* Mutant of ReflectorAdvance: the reflector moves whatever its flag says
ReflectorAdvanceAlways(ukw, steps) ==
  [ukw EXCEPT !.position = circular(ukw.position + steps, ukw.numCharacters)]

\* Reflector.advance(steps): the reflector after the call
ReflectorAdvance(ukw, steps) ==
  IF ukw.moving = TRUE
    THEN [ukw EXCEPT !.position = circular(ukw.position + steps, ukw.numCharacters)]
    ELSE ukw

\* Mutant of ReflectorValidate: only the duplicates are looked for
ReflectorValidateDuplicatesOnly(ukw) ==
  LET errs == Errors("duplicate", findDuplicates(ukw.wiring))
  IN  IF Len(errs) # 0 THEN <<errs>> ELSE <<>>

\* Reflector.validate(): the array of Errors in a sequence of length 1, or
\* the sequence of length 0 for undefined, which is what the method returns
\* when push() gives the new length 0
ReflectorValidate(ukw) ==
  LET errs == Errors("out-of-range", findOutOfRanges(ukw.wiring, ukw.numCharacters))
                \o Errors("duplicate", findDuplicates(ukw.wiring))
  IN  IF Len(errs) # 0 THEN <<errs>> ELSE <<>>

\* Reflector.clone(refl): a new Reflector built from the template's immutable parts
ReflectorClone(ukw) == Reflector(ukw.label, ukw.numCharacters, ukw.wiring, ukw.moving)

----------------------------------------------------------------------------
(* components/Plugboard.ts *)

\* new Plugboard(label, numChars, plugs)
Plugboard(label, numChars, plugs) ==
  [label |-> label, numCharacters |-> numChars, plugs |-> plugs]

\* Mutant of PlugboardEncode: a plug is followed from its first end only
PlugboardEncodeOneWay(pb, index) ==
  LET inp  == circular(index, pb.numCharacters)
      hits == { k \in 1..Len(pb.plugs) : pb.plugs[k][1] = inp }
  IN  IF hits # {}
        THEN pb.plugs[CHOOSE k \in hits : \A j \in hits : k <= j][2]
        ELSE index

\* Plugboard.encode(index)
PlugboardEncode(pb, index) ==
  LET inp  == circular(index, pb.numCharacters)
      hits == { k \in 1..Len(pb.plugs) : pb.plugs[k][1] = inp \/ pb.plugs[k][2] = inp }
  IN  IF hits # {}
        THEN LET plug == pb.plugs[CHOOSE k \in hits : \A j \in hits : k <= j]
             IN  IF plug[1] = inp THEN plug[2] ELSE plug[1]
        ELSE index

\* new Plugboard(label, numChars, plugs) with its checks: [thrown, value];
\* plugs is the array, the empty array when the argument is left out
NewPlugboard(label, numChars, plugs) ==
  IF label = "" THEN [thrown |-> TRUE, value |-> <<>>]
  ELSE IF numChars <= 0 THEN [thrown |-> TRUE, value |-> <<>>]
  ELSE [thrown |-> FALSE, value |-> <<Plugboard(label, numChars, plugs)>>]

\* The Errors of the for loop of Plugboard.validate for the plugs from `ind` on
RECURSIVE PlugErrorsFrom(_, _)
PlugErrorsFrom(pb, ind) ==
  IF ind > Len(pb.plugs) THEN <<>>
  ELSE LET from == pb.plugs[ind][1]
           to   == pb.plugs[ind][2]
           oor  == IF from < 0 \/ from >= pb.numCharacters \/ to < 0 \/ to >= pb.numCharacters
                     THEN << <<"out-of-range", ind - 1, from>> >> ELSE <<>>
           same == IF from = to THEN << <<"same", ind - 1, from>> >> ELSE <<>>
       IN  oor \o same \o PlugErrorsFrom(pb, ind + 1)

\* Mutant of PlugboardValidate: duplicates are looked for slot by slot only
PlugboardValidatePositional(pb) ==
  PlugErrorsFrom(pb, 1)
    \o Errors("duplicate", findDuplicates([k \in 1..Len(pb.plugs) |-> pb.plugs[k][1]]))
    \o Errors("duplicate", findDuplicates([k \in 1..Len(pb.plugs) |-> pb.plugs[k][2]]))

\* Plugboard.validate(): the array of Errors
PlugboardValidate(pb) ==
  PlugErrorsFrom(pb, 1) \o Errors("duplicate", findTupleDuplicates(pb.plugs))

\* Plugboard.reset()
PlugboardReset(pb) == [pb EXCEPT !.plugs = <<>>]

\* Mutant of addPlug: the second index is not tested against the range
addPlugUnranged(pb, fromIndex, toIndex) ==
  LET conflict == \E k \in 1..Len(pb.plugs) :
                    \/ pb.plugs[k][1] = fromIndex
                    \/ pb.plugs[k][1] = toIndex
                    \/ pb.plugs[k][2] = fromIndex
                    \/ pb.plugs[k][2] = toIndex
  IN  IF fromIndex < 0 \/ fromIndex >= pb.numCharacters THEN [error |-> TRUE, plugboard |-> pb]
      ELSE IF fromIndex = toIndex THEN [error |-> TRUE, plugboard |-> pb]
      ELSE IF conflict THEN [error |-> TRUE, plugboard |-> pb]
      ELSE [error |-> FALSE,
            plugboard |-> [pb EXCEPT !.plugs = Append(@, <<fromIndex, toIndex>>)]]

\* Mutant of addPlug: a conflict is looked for on the same side of a plug only
addPlugSameSide(pb, fromIndex, toIndex) ==
  LET conflict == \E k \in 1..Len(pb.plugs) :
                    pb.plugs[k][1] = fromIndex \/ pb.plugs[k][2] = toIndex
  IN  IF fromIndex < 0 \/ fromIndex >= pb.numCharacters THEN [error |-> TRUE, plugboard |-> pb]
      ELSE IF toIndex < 0 \/ toIndex >= pb.numCharacters THEN [error |-> TRUE, plugboard |-> pb]
      ELSE IF fromIndex = toIndex THEN [error |-> TRUE, plugboard |-> pb]
      ELSE IF conflict THEN [error |-> TRUE, plugboard |-> pb]
      ELSE [error |-> FALSE,
            plugboard |-> [pb EXCEPT !.plugs = Append(@, <<fromIndex, toIndex>>)]]

\* Plugboard.addPlug(fromIndex, toIndex): [error (an Error is returned), plugboard]
addPlug(pb, fromIndex, toIndex) ==
  LET conflict == \E k \in 1..Len(pb.plugs) :
                    \/ pb.plugs[k][1] = fromIndex
                    \/ pb.plugs[k][1] = toIndex
                    \/ pb.plugs[k][2] = fromIndex
                    \/ pb.plugs[k][2] = toIndex
  IN  IF fromIndex < 0 \/ fromIndex >= pb.numCharacters THEN [error |-> TRUE, plugboard |-> pb]
      ELSE IF toIndex < 0 \/ toIndex >= pb.numCharacters THEN [error |-> TRUE, plugboard |-> pb]
      ELSE IF fromIndex = toIndex THEN [error |-> TRUE, plugboard |-> pb]
      ELSE IF conflict THEN [error |-> TRUE, plugboard |-> pb]
      ELSE [error |-> FALSE,
            plugboard |-> [pb EXCEPT !.plugs = Append(@, <<fromIndex, toIndex>>)]]

----------------------------------------------------------------------------
(* components/Machine.ts *)

\* new Machine(label, alphabet, etw): no wheels, no reflector, no plugboard
Machine(label, alphabet, etw) ==
  [label |-> label, alphabet |-> toUpperCase(alphabet),
   numCharacters |-> Len(toUpperCase(alphabet)),
   entryWheel |-> etw, wheels |-> <<>>, reflector |-> <<>>, plugboard |-> <<>>]

\* Mutant of MachineReset: the plugboard stays on the machine
MachineResetKeepsPlugboard(m) ==
  [m EXCEPT !.reflector = <<>>, !.wheels = <<>>]

\* Machine.reset()
MachineReset(m) ==
  [m EXCEPT !.plugboard = <<>>, !.reflector = <<>>, !.wheels = <<>>]

\* Mutant of WheelsForward: a wheel is moved by its right-hand neighbour
\* standing at a notch, as in the textbook mechanism
RECURSIVE WheelsForwardNeighbour(_, _, _)
WheelsForwardNeighbour(wheels, at, index) ==
  IF at > Len(wheels)
    THEN [wheels |-> wheels, index |-> index]
    ELSE LET whl == IF at = 1 \/ atNotch(wheels[at - 1])
                      THEN WheelAdvance(wheels[at], 1)
                      ELSE wheels[at]
         IN  WheelsForwardNeighbour([wheels EXCEPT ![at] = whl], at + 1,
                                    WheelEncode(whl, index))

\* Mutant of WheelsForward: a wheel off its notches is dragged along by a
\* lead wheel that stands at its own notch
RECURSIVE WheelsForwardDragged(_, _, _)
WheelsForwardDragged(wheels, at, index) ==
  IF at > Len(wheels)
    THEN [wheels |-> wheels, index |-> index]
    ELSE LET whl == IF at = 1 \/ atNotch(wheels[at]) \/ wheels[1].position = 0
                      THEN WheelAdvance(wheels[at], 1)
                      ELSE wheels[at]
         IN  WheelsForwardDragged([wheels EXCEPT ![at] = whl], at + 1,
                                  WheelEncode(whl, index))

\* Mutant of WheelsForward: the lead wheel is moved by the signal, and stays
\* where it is when the index reaching it is 0
RECURSIVE WheelsForwardKeyed(_, _, _)
WheelsForwardKeyed(wheels, at, index) ==
  IF at > Len(wheels)
    THEN [wheels |-> wheels, index |-> index]
    ELSE LET whl == IF (at = 1 /\ index # 0) \/ (at # 1 /\ atNotch(wheels[at]))
                      THEN WheelAdvance(wheels[at], 1)
                      ELSE wheels[at]
         IN  WheelsForwardKeyed([wheels EXCEPT ![at] = whl], at + 1,
                                WheelEncode(whl, index))

\* this.wheels.forEach((whl, ind) => { if(ind === 0 || whl.atNotch)
\* whl.advance(); index = whl.encode(index); }), from the wheel at place `at`
RECURSIVE WheelsForward(_, _, _)
WheelsForward(wheels, at, index) ==
  IF at > Len(wheels)
    THEN [wheels |-> wheels, index |-> index]
    ELSE LET whl == IF at = 1 \/ atNotch(wheels[at])
                      THEN WheelAdvance(wheels[at], 1)
                      ELSE wheels[at]
         IN  WheelsForward([wheels EXCEPT ![at] = whl], at + 1, WheelEncode(whl, index))

\* Mutant of WheelsReverse: the reverse pass stops before wheel 0
RECURSIVE WheelsReverseSkipFirst(_, _, _)
WheelsReverseSkipFirst(wheels, at, index) ==
  IF at < 2 THEN index
  ELSE WheelsReverseSkipFirst(wheels, at - 1, WheelEncode(wheels[at], index))

\* forEachReverse(this.wheels, whl => { index = whl.encode(index); }), from
\* the wheel at place `at` down to the first
RECURSIVE WheelsReverse(_, _, _)
WheelsReverse(wheels, at, index) ==
  IF at < 1 THEN index
  ELSE WheelsReverse(wheels, at - 1, WheelEncode(wheels[at], index))

\* if(this.plugboard) index = this.plugboard.encode(index)
ViaPlugboard(m, index) ==
  IF m.plugboard # <<>> THEN PlugboardEncode(m.plugboard[1], index) ELSE index

\* Machine.processCharacter, from the plugboard to the returned string, for
\* the index of the input character (a reflector is installed):
\* [thrown, value (the returned string), machine (the machine after the call)]
EncodeIndex(m, index, unknownAs) ==
  LET i1  == ViaPlugboard(m, index)
      i2  == StatorEncode(m.entryWheel, i1)
      fwd == WheelsForward(m.wheels, 1, i2)
      ukw == ReflectorAdvance(m.reflector[1], 1)
      i3  == ReflectorEncode(ukw, fwd.index)
      i4  == WheelsReverse(fwd.wheels, Len(fwd.wheels), i3)
      i5  == StatorEncode(m.entryWheel, i4)
      m2  == [m EXCEPT !.wheels = fwd.wheels, !.reflector = <<ukw>>]
      i6  == ViaPlugboard(m2, i5)
  IN  [thrown |-> FALSE,
       value  |-> getCharacterFromIndex(m.alphabet, i6, unknownAs),
       machine |-> m2]

\* Mutant of processCharacter: no check for the reflector up front, so the
\* call fails only on reaching the reflector, after the wheels have stepped
processCharacterLateGuard(m, char, unknownAs) ==
  LET input == ToUpperCaseChar(Head(char))
      found == getCharacterIndex(m.alphabet, input, unknownAs)
      fail  == [thrown |-> TRUE, value |-> <<>>, machine |-> m]
  IN  IF Len(input) = 0 \/ Len(input) > 1 THEN fail
      ELSE IF found.thrown THEN fail
      ELSE IF m.reflector = <<>>
        THEN [fail EXCEPT !.machine.wheels = WheelsForward(m.wheels, 1, found.value).wheels]
      ELSE EncodeIndex(m, found.value, unknownAs)

\* Machine.processCharacter(char, unknownAs): [thrown, value, machine]
processCharacter(m, char, unknownAs) ==
  LET input == ToUpperCaseChar(Head(char))
      found == getCharacterIndex(m.alphabet, input, unknownAs)
      fail  == [thrown |-> TRUE, value |-> <<>>, machine |-> m]
  IN  IF m.reflector = <<>> THEN fail
      ELSE IF Len(input) = 0 \/ Len(input) > 1 THEN fail
      ELSE IF found.thrown THEN fail
      ELSE EncodeIndex(m, found.value, unknownAs)

\* Mutant of MapCharacters: every character is processed from the rotor
\* state the message started in
RECURSIVE MapCharactersUnthreaded(_, _, _, _)
MapCharactersUnthreaded(m, msg, unknownAs, acc) ==
  IF msg = <<>>
    THEN [thrown |-> FALSE, value |-> acc, machine |-> m]
    ELSE LET r == processCharacter(m, <<Head(msg)>>, unknownAs)
         IN  IF r.thrown
               THEN [thrown |-> TRUE, value |-> <<>>, machine |-> r.machine]
               ELSE MapCharactersUnthreaded(m, Tail(msg), unknownAs, acc \o r.value)

\* msg.split('').map(char => this.processCharacter(char, unknownAs)), with the
\* characters already mapped collected in `acc`; a throw ends the map
RECURSIVE MapCharacters(_, _, _, _)
MapCharacters(m, msg, unknownAs, acc) ==
  IF msg = <<>>
    THEN [thrown |-> FALSE, value |-> acc, machine |-> m]
    ELSE LET r == processCharacter(m, <<Head(msg)>>, unknownAs)
         IN  IF r.thrown
               THEN [thrown |-> TRUE, value |-> <<>>, machine |-> r.machine]
               ELSE MapCharacters(r.machine, Tail(msg), unknownAs, acc \o r.value)

\* Mutant of processMessage: a message that fails leaves the machine in the
\* state the call found it in
processMessageRolledBack(m, msg, unknownAs) ==
  LET r == MapCharacters(m, msg, unknownAs, <<>>)
  IN  IF Len(msg) = 0 THEN [thrown |-> FALSE, value |-> msg, machine |-> m]
      ELSE IF r.thrown THEN [r EXCEPT !.machine = m]
      ELSE r

\* Machine.processMessage(msg, unknownAs)
processMessage(m, msg, unknownAs) ==
  IF Len(msg) = 0
    THEN [thrown |-> FALSE, value |-> msg, machine |-> m]
    ELSE MapCharacters(m, msg, unknownAs, <<>>)

\* new Machine(label, alphabet, etw, wheels, ukw, plugboard): ukw and
\* plugboard are sequences of length 0 when left out
MachineWith(label, alphabet, etw, wheels, ukw, plugboard) ==
  [Machine(label, alphabet, etw) EXCEPT
     !.wheels = wheels, !.reflector = ukw, !.plugboard = plugboard]

\* this.wheels.map((whl, ind) => [...subErrs, ...valErrs]).flat(), for the
\* wheels from place `at` on
RECURSIVE WheelErrorsFrom(_, _)
WheelErrorsFrom(m, at) ==
  IF at > Len(m.wheels) THEN <<>>
  ELSE LET whl     == m.wheels[at]
           subErrs == IF whl.numCharacters # m.numCharacters
                        THEN << <<"wheel-count", at - 1, whl.numCharacters>> >> ELSE <<>>
           found   == WheelValidate(whl)
           valErrs == [k \in 1..Len(found) |-> <<"wheel", at - 1, found[k][2]>>]
       IN  subErrs \o valErrs \o WheelErrorsFrom(m, at + 1)

\* Machine.validate(): [thrown, value (the array of Errors)].  The spread of
\* this.reflector.validate() throws a TypeError when that is undefined.
MachineValidate(m) ==
  LET etwErrs == (IF m.entryWheel.numCharacters # m.numCharacters
                    THEN << <<"etw-count", 0, m.entryWheel.numCharacters>> >> ELSE <<>>)
                   \o StatorValidate(m.entryWheel)
      whlErrs == WheelErrorsFrom(m, 1)
      ukwErrs == IF m.reflector # <<>>
                   THEN (IF m.reflector[1].numCharacters # m.numCharacters
                           THEN << <<"ukw-count", 0, m.reflector[1].numCharacters>> >>
                           ELSE <<>>)
                        \o (IF ReflectorValidate(m.reflector[1]) # <<>>
                              THEN ReflectorValidate(m.reflector[1])[1] ELSE <<>>)
                   ELSE << <<"ukw-missing", 0, 0>> >>
      plgErrs == IF m.plugboard # <<>>
                   THEN (IF m.plugboard[1].numCharacters # m.numCharacters
                           THEN << <<"plugboard-count", 0, m.plugboard[1].numCharacters>> >>
                           ELSE <<>>)
                        \o PlugboardValidate(m.plugboard[1])
                   ELSE <<>>
  IN  IF m.reflector # <<>> /\ ReflectorValidate(m.reflector[1]) = <<>>
        THEN [thrown |-> TRUE, value |-> <<>>]
        ELSE [thrown |-> FALSE, value |-> etwErrs \o whlErrs \o ukwErrs \o plgErrs]

----------------------------------------------------------------------------
(* models/: two scaled-down kits over a four-letter alphabet.  ModelOne has *)
(* a single, rotating reflector, as Model Z; ModelTwo has a choice of two   *)
(* fixed reflectors and an entry-wheel alphabet that is no involution.      *)

AlphabetABCD == <<"A", "B", "C", "D">>

ModelOne ==
  [label |-> <<"O", "N", "E">>, alphabet |-> AlphabetABCD,
   stator |-> << <<"B", "A", "D", "C">> >>,
   wheelCount |-> 2,
   wheels |-> << [label |-> "I",  wiring |-> <<"B", "A", "D", "C">>, notches |-> <<"D">>],
                 [label |-> "II", wiring |-> <<"B", "C", "D", "A">>, notches |-> <<"A", "B">>] >>,
   reflectors |-> << [label |-> "UKW", wiring |-> <<"B", "A", "C", "D">>, rotating |-> TRUE] >>,
   plugboard |-> TRUE]

ModelTwo ==
  [label |-> <<"T", "W", "O">>, alphabet |-> AlphabetABCD,
   stator |-> << <<"B", "C", "D", "A">> >>,
   wheelCount |-> 2,
   wheels |-> << [label |-> "I",  wiring |-> <<"B", "A", "D", "C">>, notches |-> <<"D">>],
                 [label |-> "II", wiring |-> <<"B", "C", "D", "A">>, notches |-> <<"A", "B">>] >>,
   reflectors |-> << [label |-> "UKW", wiring |-> <<"B", "A", "D", "C">>, rotating |-> FALSE],
                     [label |-> "B",   wiring |-> <<"D", "C", "B", "A">>, rotating |-> FALSE] >>,
   plugboard |-> FALSE]

Models == {ModelOne, ModelTwo}

\* getWiring(alpha, input): the index in alpha of each character of input
getWiring(alpha, input) ==
  [k \in 1..Len(input) |-> getCharacterIndex(alpha, <<input[k]>>, <<"X">>).value]

\* Stator.fromModel(model)
StatorFromModel(model) ==
  LET alpha == IF model.stator # <<>> THEN model.stator[1] ELSE model.alphabet
  IN  Stator(model.label, Len(alpha), getWiring(alpha, model.alphabet))

\* Wheel.fromModel(model, whl)
WheelFromModel(model, whl) ==
  Wheel(whl.label, Len(model.alphabet), getWiring(model.alphabet, whl.wiring),
        { getCharacterIndex(model.alphabet, <<whl.notches[k]>>, <<"X">>).value :
            k \in 1..Len(whl.notches) })

\* Reflector.fromModel(model, rfl)
ReflectorFromModel(model, rfl) ==
  Reflector(rfl.label, Len(model.alphabet), getWiring(model.alphabet, rfl.wiring),
            rfl.rotating)

----------------------------------------------------------------------------
(* Enigma.ts *)

\* The first element of arr satisfying the test, as arr.find does: a
\* sequence of length 0 (undefined) or 1
FindByLabel(arr, label) ==
  LET hits == { k \in 1..Len(arr) : arr[k].label = label }
  IN  IF hits = {} THEN <<>>
      ELSE << arr[CHOOSE k \in hits : \A j \in hits : k <= j] >>

\* new Enigma(model): the kit's fields
EnigmaKit(model) ==
  [label |-> model.label, alphabet |-> model.alphabet,
   wheelCount |-> model.wheelCount,
   wheels |-> [k \in 1..Len(model.wheels) |-> WheelFromModel(model, model.wheels[k])],
   reflectors |-> [k \in 1..Len(model.reflectors) |->
                     ReflectorFromModel(model, model.reflectors[k])],
   plugboard |-> model.plugboard]

\* new Enigma(model): the machine it instantiates
EnigmaMachine(model) ==
  LET kit == EnigmaKit(model)
      m   == Machine(kit.label, kit.alphabet, StatorFromModel(model))
  IN  IF Len(kit.reflectors) = 1
        THEN [m EXCEPT !.reflector = <<ReflectorClone(kit.reflectors[1])>>]
        ELSE m

\* Mutant of installWheel: the capacity test is off by one
installWheelOffByOne(kit, m, label, ringSetting, startingPosition) ==
  LET optWheel == FindByLabel(kit.wheels, label)
  IN  IF Len(m.wheels) > kit.wheelCount THEN [error |-> TRUE, machine |-> m]
      ELSE IF optWheel = <<>> THEN [error |-> TRUE, machine |-> m]
      ELSE [error |-> FALSE,
            machine |-> [m EXCEPT !.wheels =
               Append(@, WheelSetup(WheelClone(optWheel[1]), ringSetting, startingPosition))]]

\* Enigma.installWheel(label, ringSetting, startingPosition):
\* [error (an Error is returned), machine]
installWheel(kit, m, label, ringSetting, startingPosition) ==
  LET optWheel == FindByLabel(kit.wheels, label)
  IN  IF Len(m.wheels) >= kit.wheelCount THEN [error |-> TRUE, machine |-> m]
      ELSE IF optWheel = <<>> THEN [error |-> TRUE, machine |-> m]
      ELSE [error |-> FALSE,
            machine |-> [m EXCEPT !.wheels =
               Append(@, WheelSetup(WheelClone(optWheel[1]), ringSetting, startingPosition))]]

\* Mutant of installReflector: a label that is not found is not reported and
\* the machine is left without a reflector
installReflectorUnchecked(kit, m, label) ==
  LET optRefl == FindByLabel(kit.reflectors, label)
  IN  IF optRefl = <<>> THEN [error |-> FALSE, machine |-> [m EXCEPT !.reflector = <<>>]]
      ELSE [error |-> FALSE,
            machine |-> [m EXCEPT !.reflector = <<ReflectorClone(optRefl[1])>>]]

\* Enigma.installReflector(label): [error, machine]
installReflector(kit, m, label) ==
  LET optRefl == FindByLabel(kit.reflectors, label)
  IN  IF optRefl = <<>> THEN [error |-> TRUE, machine |-> m]
      ELSE [error |-> FALSE,
            machine |-> [m EXCEPT !.reflector = <<ReflectorClone(optRefl[1])>>]]

\* Enigma.installPlugboard(plugs): the machine after the call
installPlugboard(kit, m, plugs) ==
  [m EXCEPT !.plugboard = <<Plugboard(kit.label, Len(kit.alphabet), plugs)>>]

\* Enigma.reset(): the machine after the call
reset(m) == MachineReset(m)

----------------------------------------------------------------------------
(* Inputs *)

\* <<label, ringSetting, startingPosition>> of an installWheel call; "IX" is
\* in no kit, and 5 and -1 are outside 0..3
WheelInstalls   == { <<"I", 0, 0>>, <<"I", 5, -1>>, <<"II", 0, 0>>, <<"IX", 0, 0>> }
ReflectorLabels == {"UKW", "B", "Z"}
PlugSets        == { << <<0, 2>> >> }
Characters      == {"A", "c", "?", " ", "sz"}
UnknownAs       == { <<"B">>, <<"X">> }
MessageChars    == {"D", "?"}

RECURSIVE SeqsUpTo(_, _)
SeqsUpTo(S, n) ==
  IF n = 0 THEN { <<>> }
  ELSE LET shorter == SeqsUpTo(S, n - 1)
       IN  shorter \cup { Append(s, x) : s \in shorter, x \in S }

Messages == SeqsUpTo(MessageChars, MaxMsgLen)

NoReturn == [kind |-> "none", value |-> <<>>]

----------------------------------------------------------------------------
(* The state machine *)

Init ==
  \E model \in Models :
    /\ enigma = EnigmaKit(model)
    /\ machine = EnigmaMachine(model)
    /\ op = [name |-> "new"]
    /\ pre = EnigmaMachine(model)
    /\ ret = NoReturn

InstallWheel(label, ringSetting, startingPosition) ==
  LET r == installWheel(enigma, machine, label, ringSetting, startingPosition)
  IN  /\ machine' = r.machine
      /\ op' = [name |-> "installWheel", label |-> label,
                ringSetting |-> ringSetting, startingPosition |-> startingPosition]
      /\ pre' = machine
      /\ ret' = [kind |-> IF r.error THEN "error" ELSE "ok", value |-> <<>>]
      /\ UNCHANGED enigma

InstallReflector(label) ==
  LET r == installReflector(enigma, machine, label)
  IN  /\ machine' = r.machine
      /\ op' = [name |-> "installReflector", label |-> label]
      /\ pre' = machine
      /\ ret' = [kind |-> IF r.error THEN "error" ELSE "ok", value |-> <<>>]
      /\ UNCHANGED enigma

InstallPlugboard(plugs) ==
  /\ enigma' = [enigma EXCEPT !.plugboard = TRUE]
  /\ machine' = installPlugboard(enigma, machine, plugs)
  /\ op' = [name |-> "installPlugboard", plugs |-> plugs]
  /\ pre' = machine
  /\ ret' = [kind |-> "ok", value |-> <<>>]

Reset ==
  /\ machine' = reset(machine)
  /\ op' = [name |-> "reset"]
  /\ pre' = machine
  /\ ret' = [kind |-> "ok", value |-> <<>>]
  /\ UNCHANGED enigma

ProcessCharacter(char, unknownAs) ==
  LET r == processCharacter(machine, <<char>>, unknownAs)
  IN  /\ machine' = r.machine
      /\ op' = [name |-> "processCharacter", char |-> char, unknownAs |-> unknownAs]
      /\ pre' = machine
      /\ ret' = [kind |-> IF r.thrown THEN "throw" ELSE "ok", value |-> r.value]
      /\ UNCHANGED enigma

ProcessMessage(msg, unknownAs) ==
  LET r == processMessage(machine, msg, unknownAs)
  IN  /\ machine' = r.machine
      /\ op' = [name |-> "processMessage", msg |-> msg, unknownAs |-> unknownAs]
      /\ pre' = machine
      /\ ret' = [kind |-> IF r.thrown THEN "throw" ELSE "ok", value |-> r.value]
      /\ UNCHANGED enigma

Next ==
  \/ \E w \in WheelInstalls : InstallWheel(w[1], w[2], w[3])
  \/ \E label \in ReflectorLabels : InstallReflector(label)
  \/ \E plugs \in PlugSets : InstallPlugboard(plugs)
  \/ Reset
  \/ \E char \in Characters, unknownAs \in UnknownAs : ProcessCharacter(char, unknownAs)
  \/ \E msg \in Messages, unknownAs \in UnknownAs : ProcessMessage(msg, unknownAs)

Spec == Init /\ [][Next]_vars

----------------------------------------------------------------------------
(* The components driven directly.  The machine is one built with          *)
(* new Machine(...) from components that were themselves constructed       *)
(* directly, valid or not; the calls are those of the components' own      *)
(* methods, on the parts the machine holds.  The kit plays no part here    *)
(* and stays as constructed.                                               *)

\* The arguments of new Machine(label, alphabet, etw, wheels, ukw, plugboard)
Benches ==
  { \* every part valid
    [etw |-> Stator("ETW", 4, <<1, 0, 3, 2>>),
     wheels |-> << Wheel("I", 4, <<1, 0, 3, 2>>, {3}) >>,
     ukw |-> << Reflector("UKW", 4, <<1, 0, 3, 2>>, FALSE) >>,
     plugboard |-> << Plugboard("PB", 4, << <<0, 2>> >>) >>],
    \* a rotating reflector, no wheels, no plugboard
    [etw |-> Stator("ETW", 4, <<1, 2, 3, 0>>),
     wheels |-> <<>>,
     ukw |-> << Reflector("UKW", 4, <<1, 0, 2, 3>>, TRUE) >>,
     plugboard |-> <<>>],
    \* repeated and out-of-range values everywhere
    [etw |-> Stator("ETW", 4, <<0, 0, 1, 2>>),
     wheels |-> <<>>,
     ukw |-> << Reflector("UKW", 4, <<1, 1, 4, 0>>, FALSE) >>,
     plugboard |-> << Plugboard("PB", 4, << <<0, 0>>, <<1, 5>>, <<2, 1>> >>) >>],
    \* parts of another size than the machine, no reflector
    [etw |-> Stator("ETW", 3, <<1, 0, 2>>),
     wheels |-> << Wheel("III", 3, <<2, 0, 1>>, {0}) >>,
     ukw |-> <<>>,
     plugboard |-> << Plugboard("PB", 5, << <<0, 4>> >>) >>],
    \* out-of-range values only; a symbol in two plugs, in different slots
    [etw |-> Stator("ETW", 4, <<1, 0, 3, 4>>),
     wheels |-> <<>>,
     ukw |-> << Reflector("UKW", 4, <<-1, 0, 1, 2>>, FALSE) >>,
     plugboard |-> << Plugboard("PB", 4, << <<0, 1>>, <<1, 2>> >>) >>],
    \* a repeated value only; a plug from a symbol to itself
    [etw |-> Stator("ETW", 4, <<1, 0, 3, 2>>),
     wheels |-> <<>>,
     ukw |-> << Reflector("UKW", 4, <<3, 0, 3, 1>>, FALSE) >>,
     plugboard |-> << Plugboard("PB", 4, << <<1, 1>> >>) >>],
    \* a wheel with a repeated value, no reflector, a plug out of range
    [etw |-> Stator("ETW", 4, <<1, 0, 3, 2>>),
     wheels |-> << Wheel("IV", 4, <<0, 0, 1, 2>>, {1}) >>,
     ukw |-> <<>>,
     plugboard |-> << Plugboard("PB", 4, << <<0, 4>> >>) >>],
    \* a reflector of another size, a plugboard without plugs
    [etw |-> Stator("ETW", 4, <<1, 0, 3, 2>>),
     wheels |-> <<>>,
     ukw |-> << Reflector("UKW", 3, <<1, 0, 2>>, FALSE) >>,
     plugboard |-> << Plugboard("PB", 4, <<>>) >>] }

\* Arguments of the calls
EncodeIndices  == {-1, 0, 2, 4}
PlugPairs      == { <<1, 3>>, <<2, 1>>, <<0, 1>>, <<1, 1>>, <<-1, 1>>, <<1, 4>> }
CircularValues == {-5, -1, 0, 3, 4, 9}
CircularMaxes  == {-1, 0, 1, 4}
StepCounts     == {-1, 2, 6}
WheelSetups    == { <<1, 2>>, <<5, -1>> }
Positions      == {-1, 5}
\* characters looked up in the alphabet: one of it in lower case, one that
\* is not of it, a blank, and one that upper-cases to two characters
LookedUp == {"c", "?", " ", "sz"}
\* characters typed on the machine: two of the alphabet and one that is not
BenchCharacters == {"A", "D", "?"}
NewLabels      == {"", "T"}
NewNumChars    == {-1, 0, 2}
\* an array argument: null, or an array of one or of two elements
NewStrings     == { <<>>, << <<"A">> >>, << <<"A", "B">> >> }
NewNumbers     == { <<>>, << <<0>> >>, << <<1, 0>> >> }

BenchInit ==
  \E b \in Benches :
    /\ enigma = EnigmaKit(ModelOne)
    /\ machine = MachineWith(<<"M">>, AlphabetABCD, b.etw, b.wheels, b.ukw, b.plugboard)
    /\ op = [name |-> "new"]
    /\ pre = MachineWith(<<"M">>, AlphabetABCD, b.etw, b.wheels, b.ukw, b.plugboard)
    /\ ret = NoReturn

\* what every call leaves behind: the call, the machine before it, and what
\* it returned.  A returned string is in the field value, a returned index
\* in index, returned Errors in errors, a constructed component in made.
Called(call, returned) ==
  /\ op' = call
  /\ pre' = machine
  /\ ret' = returned
  /\ UNCHANGED enigma

Outcome(thrown) == IF thrown THEN "throw" ELSE "ok"

CallCircular(val, max) ==
  LET r == circularCall(val, max)
  IN  /\ UNCHANGED machine
      /\ Called([name |-> "circular", val |-> val, max |-> max],
                [kind |-> Outcome(r.thrown), index |-> r.value])

CallGetCharacterIndex(char, unknownAs) ==
  LET r == getCharacterIndex(machine.alphabet, <<char>>, unknownAs)
  IN  /\ UNCHANGED machine
      /\ Called([name |-> "getCharacterIndex", char |-> char, unknownAs |-> unknownAs],
                [kind |-> Outcome(r.thrown), index |-> r.value])

CallPlugboardEncode(index) ==
  /\ machine.plugboard # <<>>
  /\ UNCHANGED machine
  /\ Called([name |-> "Plugboard.encode", index |-> index],
            [kind |-> "ok", index |-> PlugboardEncode(machine.plugboard[1], index)])

CallAddPlug(fromIndex, toIndex) ==
  /\ machine.plugboard # <<>>
  /\ LET r == addPlug(machine.plugboard[1], fromIndex, toIndex)
     IN  /\ machine' = [machine EXCEPT !.plugboard = <<r.plugboard>>]
         /\ Called([name |-> "Plugboard.addPlug", fromIndex |-> fromIndex,
                    toIndex |-> toIndex],
                   [kind |-> IF r.error THEN "error" ELSE "ok", value |-> <<>>])

CallPlugboardValidate ==
  /\ machine.plugboard # <<>>
  /\ UNCHANGED machine
  /\ Called([name |-> "Plugboard.validate"],
            [kind |-> "ok", errors |-> PlugboardValidate(machine.plugboard[1])])

CallStatorValidate ==
  /\ UNCHANGED machine
  /\ Called([name |-> "Stator.validate"],
            [kind |-> "ok", errors |-> StatorValidate(machine.entryWheel)])

\* array: an array is returned, and not undefined
CallReflectorValidate ==
  /\ machine.reflector # <<>>
  /\ UNCHANGED machine
  /\ LET r == ReflectorValidate(machine.reflector[1])
     IN  Called([name |-> "Reflector.validate"],
                [kind |-> "ok", array |-> r # <<>>,
                 errors |-> IF r # <<>> THEN r[1] ELSE <<>>])

CallMachineValidate ==
  LET r == MachineValidate(machine)
  IN  /\ UNCHANGED machine
      /\ Called([name |-> "Machine.validate"],
                [kind |-> Outcome(r.thrown), errors |-> r.value])

CallWheelSetup(i, ringSetting, startingPosition) ==
  /\ i \in 1..Len(machine.wheels)
  /\ machine' = [machine EXCEPT !.wheels[i] = WheelSetup(@, ringSetting, startingPosition)]
  /\ Called([name |-> "Wheel.setup", wheel |-> i, ringSetting |-> ringSetting,
             startingPosition |-> startingPosition],
            [kind |-> "ok", value |-> <<>>])

CallWheelAdvance(i, steps) ==
  /\ i \in 1..Len(machine.wheels)
  /\ machine' = [machine EXCEPT !.wheels[i] = WheelAdvance(@, steps)]
  /\ Called([name |-> "Wheel.advance", wheel |-> i, steps |-> steps],
            [kind |-> "ok", returned |-> WheelAdvanceReturn(machine.wheels[i], steps)])

CallWheelSetPosition(i, index) ==
  /\ i \in 1..Len(machine.wheels)
  /\ LET r == WheelSetPosition(machine.wheels[i], index)
     IN  /\ machine' = [machine EXCEPT !.wheels[i] = r.wheel]
         /\ Called([name |-> "Wheel.position", wheel |-> i, index |-> index],
                   [kind |-> Outcome(r.thrown), value |-> <<>>])

CallWheelEncode(i, index) ==
  /\ i \in 1..Len(machine.wheels)
  /\ UNCHANGED machine
  /\ Called([name |-> "Wheel.encode", wheel |-> i, index |-> index],
            [kind |-> "ok", index |-> WheelEncode(machine.wheels[i], index)])

CallReflectorSetup(startPosition) ==
  /\ machine.reflector # <<>>
  /\ machine' = [machine EXCEPT !.reflector[1] = ReflectorSetup(@, startPosition)]
  /\ Called([name |-> "Reflector.setup", startPosition |-> startPosition],
            [kind |-> "ok", value |-> <<>>])

CallReflectorSetPosition(index) ==
  /\ machine.reflector # <<>>
  /\ machine' = [machine EXCEPT !.reflector[1] = ReflectorSetPosition(@, index)]
  /\ Called([name |-> "Reflector.position", index |-> index],
            [kind |-> "ok", value |-> <<>>])

CallReflectorAdvance(steps) ==
  /\ machine.reflector # <<>>
  /\ machine' = [machine EXCEPT !.reflector[1] = ReflectorAdvance(@, steps)]
  /\ Called([name |-> "Reflector.advance", steps |-> steps],
            [kind |-> "ok", index |-> ReflectorAdvance(machine.reflector[1], steps).position])

ConstructWheel(label, numChars, display, wiring) ==
  LET r == NewWheel(label, numChars, display, wiring, {})
  IN  /\ UNCHANGED machine
      /\ Called([name |-> "new Wheel", label |-> label, numChars |-> numChars,
                 display |-> display, wiring |-> wiring],
                [kind |-> Outcome(r.thrown), made |-> r.value])

ConstructReflector(label, numChars, wiring) ==
  LET r == NewReflector(label, numChars, wiring, FALSE)
  IN  /\ UNCHANGED machine
      /\ Called([name |-> "new Reflector", label |-> label, numChars |-> numChars,
                 wiring |-> wiring],
                [kind |-> Outcome(r.thrown), made |-> r.value])

ConstructStator(label, numChars, map) ==
  LET r == NewStator(label, numChars, map)
  IN  /\ UNCHANGED machine
      /\ Called([name |-> "new Stator", label |-> label, numChars |-> numChars,
                 wiring |-> map],
                [kind |-> Outcome(r.thrown), made |-> r.value])

ConstructPlugboard(label, numChars) ==
  LET r == NewPlugboard(label, numChars, <<>>)
  IN  /\ UNCHANGED machine
      /\ Called([name |-> "new Plugboard", label |-> label, numChars |-> numChars],
                [kind |-> Outcome(r.thrown), made |-> r.value])

BenchNext ==
  \/ \E val \in CircularValues, max \in CircularMaxes : CallCircular(val, max)
  \/ \E char \in LookedUp, unknownAs \in UnknownAs :
          CallGetCharacterIndex(char, unknownAs)
  \/ \E index \in EncodeIndices : CallPlugboardEncode(index)
  \/ \E plug \in PlugPairs : CallAddPlug(plug[1], plug[2])
  \/ CallPlugboardValidate
  \/ CallStatorValidate
  \/ CallReflectorValidate
  \/ CallMachineValidate
  \/ \E i \in {1}, s \in WheelSetups : CallWheelSetup(i, s[1], s[2])
  \/ \E i \in {1}, steps \in StepCounts : CallWheelAdvance(i, steps)
  \/ \E i \in {1}, index \in Positions : CallWheelSetPosition(i, index)
  \/ \E i \in {1}, index \in EncodeIndices : CallWheelEncode(i, index)
  \/ \E startPosition \in Positions : CallReflectorSetup(startPosition)
  \/ \E index \in Positions : CallReflectorSetPosition(index)
  \/ \E steps \in StepCounts : CallReflectorAdvance(steps)
  \/ \E char \in BenchCharacters, unknownAs \in UnknownAs :
          ProcessCharacter(char, unknownAs)
  \/ \E label \in NewLabels, numChars \in NewNumChars,
        display \in NewStrings, wiring \in NewNumbers :
          ConstructWheel(label, numChars, display, wiring)
  \/ \E label \in NewLabels, numChars \in NewNumChars, wiring \in NewNumbers :
          ConstructReflector(label, numChars, wiring)
  \/ \E label \in NewLabels, numChars \in NewNumChars, map \in NewNumbers :
          ConstructStator(label, numChars, map)
  \/ \E label \in NewLabels, numChars \in NewNumChars : ConstructPlugboard(label, numChars)

BenchSpec == BenchInit /\ [][BenchNext]_vars

----------------------------------------------------------------------------
(* A plugboard on its own: one constructed without plugs, on which only    *)
(* addPlug, reset and validate are called, with every pair of indices from *)
(* one below the range to one above it.                                    *)

PlugIndices == -1..Len(AlphabetABCD)

PlugInit ==
  LET m == MachineWith(<<"M">>, AlphabetABCD, Stator("ETW", 4, <<1, 0, 3, 2>>), <<>>, <<>>,
                       NewPlugboard("PB", Len(AlphabetABCD), <<>>).value)
  IN  /\ enigma = EnigmaKit(ModelOne)
      /\ machine = m
      /\ op = [name |-> "new"]
      /\ pre = m
      /\ ret = NoReturn

CallPlugboardReset ==
  /\ machine.plugboard # <<>>
  /\ machine' = [machine EXCEPT !.plugboard[1] = PlugboardReset(@)]
  /\ Called([name |-> "Plugboard.reset"], [kind |-> "ok", value |-> <<>>])

PlugNext ==
  \/ \E fromIndex \in PlugIndices, toIndex \in PlugIndices : CallAddPlug(fromIndex, toIndex)
  \/ CallPlugboardReset
  \/ CallPlugboardValidate

PlugSpec == PlugInit /\ [][PlugNext]_vars

----------------------------------------------------------------------------
(* Properties.  `pre` is the machine before the last operation, `op` the   *)
(* operation with its arguments, `ret` what it returned or that it threw.  *)

N == Len(AlphabetABCD)

\* wiring is a permutation of 0..Len-1 that is its own inverse
IsInvolution(wiring) ==
  \A i \in 1..Len(wiring) :
    /\ wiring[i] \in 0..(Len(wiring) - 1)
    /\ wiring[wiring[i] + 1] = i - 1

\* every pair in range, no self-pair, no symbol in two pairs
IsValidPlugSet(plugs, n) ==
  /\ \A k \in 1..Len(plugs) :
       /\ plugs[k][1] \in 0..(n - 1)
       /\ plugs[k][2] \in 0..(n - 1)
       /\ plugs[k][1] # plugs[k][2]
  /\ \A k, j \in 1..Len(plugs) :
       k # j => {plugs[k][1], plugs[k][2]} \cap {plugs[j][1], plugs[j][2]} = {}

InvolutiveConfiguration(m) ==
  /\ IsInvolution(m.entryWheel.mapping)
  /\ \A i \in 1..Len(m.wheels) : IsInvolution(m.wheels[i].wiring)
  /\ m.reflector # <<>> /\ IsInvolution(m.reflector[1].wiring)
  /\ m.plugboard # <<>> => IsValidPlugSet(m.plugboard[1].plugs, m.numCharacters)

InAlphabet(m, text) ==
  \A k \in 1..Len(text) : \E a \in 1..Len(m.alphabet) : m.alphabet[a] = text[k]

ProcessedCharacter == op.name = "processCharacter" /\ ret.kind = "ok"
ProcessedMessage   == op.name = "processMessage" /\ ret.kind = "ok"

\* C1: reciprocity.  With involutive entry, wheel and reflector wirings and
\* a valid plugboard, processMessage applied to the output of processMessage,
\* on a machine in the rotor state the first call started from, returns the
\* original message.
C1_Reciprocity ==
  (ProcessedMessage /\ InvolutiveConfiguration(pre) /\ InAlphabet(pre, op.msg)) =>
    LET back == processMessage(pre, ret.value, op.unknownAs)
    IN  ~back.thrown /\ back.value = op.msg

RECURSIVE ThroughWheels(_, _, _)
ThroughWheels(wheels, order, index) ==
  IF order = <<>> THEN index
  ELSE ThroughWheels(wheels, Tail(order), WheelEncode(wheels[Head(order)], index))

\* plugboard, entry wheel, wheel[0]..wheel[last], reflector,
\* wheel[last]..wheel[0], entry wheel, plugboard, all as they stand in m
SignalPath(m, index) ==
  LET n    == Len(m.wheels)
      up   == [k \in 1..n |-> k]
      down == [k \in 1..n |-> n + 1 - k]
      plug(i) == IF m.plugboard = <<>> THEN i ELSE PlugboardEncode(m.plugboard[1], i)
      a == StatorEncode(m.entryWheel, plug(index))
      b == ThroughWheels(m.wheels, up, a)
      c == ReflectorEncode(m.reflector[1], b)
      d == ThroughWheels(m.wheels, down, c)
  IN  plug(StatorEncode(m.entryWheel, d))

\* C3: signal path.  processCharacter returns the symbol at the index that
\* plugboard, entry wheel, the wheels in order, the reflector, the wheels in
\* reverse order, entry wheel and plugboard make of the input's index, with
\* wheels and reflector at the positions they have after the call's stepping.
C3_SignalPath ==
  ProcessedCharacter =>
    LET i   == getCharacterIndex(pre.alphabet, <<op.char>>, op.unknownAs).value
        out == SignalPath(machine, i)
    IN  /\ out \in 0..(N - 1)
        /\ ret.value = <<machine.alphabet[out + 1]>>

C3_Witness ==
  /\ ProcessedCharacter
  /\ Len(machine.wheels) = 2
  /\ machine.plugboard # <<>>
  /\ machine.reflector[1].position # pre.reflector[1].position
  /\ machine.wheels[2].position # pre.wheels[2].position

\* The machine after the first k of the calls processCharacter(text[0]),
\* processCharacter(text[1]), ... made one after another on m
RECURSIVE AfterCalls(_, _, _, _)
AfterCalls(m, text, unknownAs, k) ==
  IF k = 0 THEN m
  ELSE processCharacter(AfterCalls(m, text, unknownAs, k - 1),
                        <<text[k]>>, unknownAs).machine

\* C4: processMessage is the left-to-right fold of processCharacter: same
\* length, the k-th symbol is what the k-th call returns, the positions are
\* those the calls leave; the empty text gives the empty text and moves
\* nothing.
C4_Fold ==
  ProcessedMessage =>
    /\ Len(ret.value) = Len(op.msg)
    /\ \A k \in 1..Len(op.msg) :
         <<ret.value[k]>> =
           processCharacter(AfterCalls(pre, op.msg, op.unknownAs, k - 1),
                            <<op.msg[k]>>, op.unknownAs).value
    /\ machine = AfterCalls(pre, op.msg, op.unknownAs, Len(op.msg))
    /\ op.msg = <<>> => (ret.value = <<>> /\ machine = pre)

C4_Witness ==
  /\ ProcessedMessage
  /\ Len(op.msg) = MaxMsgLen
  /\ Len(pre.wheels) = 2
  /\ atNotch(pre.wheels[2])
  /\ ret.value[1] # ret.value[2]

\* C5: with no reflector installed processCharacter throws, and the failing
\* call moves no wheel.
C5_NoReflector ==
  (op.name = "processCharacter" /\ pre.reflector = <<>>) =>
    /\ ret.kind = "throw"
    /\ machine = pre

C5_Witness ==
  /\ op.name = "processCharacter"
  /\ pre.reflector = <<>>
  /\ Len(pre.wheels) = 2
  /\ ret.kind = "throw"

\* C6: fallback substitution.  With a fallback symbol of the alphabet, an
\* input symbol that is not in the alphabet after upper-casing (whitespace
\* included) is processed, output and stepping, exactly as the fallback
\* symbol itself is in the same rotor state, and the call does not fail.
C6_Fallback ==
  ( /\ op.name = "processCharacter"
    /\ pre.reflector # <<>>
    /\ Len(op.unknownAs) = 1 /\ InAlphabet(pre, op.unknownAs)
    /\ ~InAlphabet(pre, toUpperCase(<<op.char>>)) ) =>
      LET asFallback == processCharacter(pre, op.unknownAs, op.unknownAs)
      IN  /\ ret.kind = "ok"
          /\ ret.value = asFallback.value
          /\ machine = asFallback.machine

\* C7: wheel capacity.  The machine never holds more than wheelCount wheels,
\* and installWheel on a machine that holds wheelCount wheels returns an
\* Error and leaves the machine as it was, whatever the label.
C7_WheelCapacity ==
  /\ Len(machine.wheels) <= enigma.wheelCount
  /\ (op.name = "installWheel" /\ Len(pre.wheels) >= enigma.wheelCount) =>
       (ret.kind = "error" /\ machine = pre)

\* a kit wheel installed a further time into a full machine
C7_Witness ==
  /\ op.name = "installWheel"
  /\ Len(pre.wheels) = enigma.wheelCount
  /\ FindByLabel(enigma.wheels, op.label) # <<>>
  /\ \E i \in 1..Len(pre.wheels) : pre.wheels[i].label = op.label
  /\ ret.kind = "error"

\* C8: installWheel and installReflector with a label that is in the kit's
\* wheels (reflectors) nowhere return an Error and leave the installed
\* wheels, reflector and plugboard as they were.
C8_UnknownLabel ==
  /\ (op.name = "installWheel" /\ FindByLabel(enigma.wheels, op.label) = <<>>) =>
       (ret.kind = "error" /\ machine = pre)
  /\ (op.name = "installReflector" /\ FindByLabel(enigma.reflectors, op.label) = <<>>) =>
       (ret.kind = "error" /\ machine = pre)

C8_Witness ==
  /\ op.name = "installReflector"
  /\ FindByLabel(enigma.reflectors, op.label) = <<>>
  /\ pre.reflector # <<>> /\ pre.wheels # <<>> /\ pre.plugboard # <<>>
  /\ ret.kind = "error"

C10_ResetRestoresInitial ==
  (op.name = "reset" /\ Len(enigma.reflectors) = 1) =>
    /\ machine.reflector = <<ReflectorClone(enigma.reflectors[1])>>
    /\ ~processMessage(machine, <<"D">>, <<"B">>).thrown

----------------------------------------------------------------------------
(* Properties of the components, on the machine of BenchSpec *)

IsCall(name) == op.name = name

\* C11 as stated: for a valid plug set and any integer index x,
\* Plugboard.encode(Plugboard.encode(x)) = x.
C11_AnyInteger ==
  (IsCall("Plugboard.encode")
     /\ IsValidPlugSet(pre.plugboard[1].plugs, pre.plugboard[1].numCharacters)) =>
    PlugboardEncode(pre.plugboard[1], ret.index) = op.index

\* C11: plugboard involution.  For a valid plug set, encode(encode(x)) = x
\* for every index x in 0..N-1; for any other integer x the two encodes give
\* an index that is x modulo N.
C11_Involution ==
  (IsCall("Plugboard.encode")
     /\ IsValidPlugSet(pre.plugboard[1].plugs, pre.plugboard[1].numCharacters)) =>
    LET pb    == pre.plugboard[1]
        twice == PlugboardEncode(pb, ret.index)
    IN  /\ op.index \in 0..(pb.numCharacters - 1) => twice = op.index
        /\ circular(twice, pb.numCharacters) = circular(op.index, pb.numCharacters)

\* an index at the second end of a plug of a valid set
C11_Witness ==
  /\ IsCall("Plugboard.encode")
  /\ IsValidPlugSet(pre.plugboard[1].plugs, pre.plugboard[1].numCharacters)
  /\ \E k \in 1..Len(pre.plugboard[1].plugs) : pre.plugboard[1].plugs[k][2] = op.index
  /\ ret.index # op.index

\* C12: addPlug(a, b) returns an Error and leaves the plugs as they were when
\* a or b is outside 0..N-1, when a = b, or when a or b is at either end of
\* a plug already there; in every other case it appends (a, b) and returns
\* no Error.
C12_AddPlug ==
  IsCall("Plugboard.addPlug") =>
    LET pb  == pre.plugboard[1]
        a   == op.fromIndex
        b   == op.toIndex
        bad == \/ a \notin 0..(pb.numCharacters - 1)
               \/ b \notin 0..(pb.numCharacters - 1)
               \/ a = b
               \/ \E k \in 1..Len(pb.plugs) :
                    {a, b} \cap {pb.plugs[k][1], pb.plugs[k][2]} # {}
    IN  /\ bad => (ret.kind = "error" /\ machine = pre)
        /\ ~bad => /\ ret.kind = "ok"
                   /\ machine = [pre EXCEPT !.plugboard[1].plugs = Append(@, <<a, b>>)]

\* a plug refused because its first end is the second end of a plug there
C12_Witness ==
  /\ IsCall("Plugboard.addPlug")
  /\ op.fromIndex \in 0..(pre.plugboard[1].numCharacters - 1)
  /\ op.toIndex \in 0..(pre.plugboard[1].numCharacters - 1)
  /\ op.fromIndex # op.toIndex
  /\ \A k \in 1..Len(pre.plugboard[1].plugs) :
       /\ pre.plugboard[1].plugs[k][1] \notin {op.fromIndex, op.toIndex}
       /\ pre.plugboard[1].plugs[k][2] # op.toIndex
  /\ \E k \in 1..Len(pre.plugboard[1].plugs) : pre.plugboard[1].plugs[k][2] = op.fromIndex
  /\ ret.kind = "error"

HasError(errs, kind) == \E e \in 1..Len(errs) : errs[e][1] = kind

\* C13: Plugboard.validate() returns no Errors exactly when every plug has
\* both ends in 0..N-1, no plug joins a symbol to itself and no symbol is in
\* more than one plug, in whatever slot; each of the three kinds of defect
\* gives at least one Error; and the constructor takes the plugs as they are.
C13_PlugboardValidate ==
  IsCall("Plugboard.validate") =>
    LET pb    == pre.plugboard[1]
        n     == pb.numCharacters
        range == \E k \in 1..Len(pb.plugs) :
                   pb.plugs[k][1] \notin 0..(n - 1) \/ pb.plugs[k][2] \notin 0..(n - 1)
        self  == \E k \in 1..Len(pb.plugs) : pb.plugs[k][1] = pb.plugs[k][2]
        multi == \E k, j \in 1..Len(pb.plugs) :
                   k # j /\ {pb.plugs[k][1], pb.plugs[k][2]}
                              \cap {pb.plugs[j][1], pb.plugs[j][2]} # {}
    IN  /\ ret.kind = "ok"
        /\ ret.errors = <<>> <=> ~(range \/ self \/ multi)
        /\ range => HasError(ret.errors, "out-of-range")
        /\ self  => HasError(ret.errors, "same")
        /\ multi => HasError(ret.errors, "duplicate")
        /\ ~NewPlugboard(pb.label, n, pb.plugs).thrown

\* a symbol in two plugs, once as first and once as second end, nothing else
\* being wrong
C13_Witness ==
  /\ IsCall("Plugboard.validate")
  /\ ~IsValidPlugSet(pre.plugboard[1].plugs, pre.plugboard[1].numCharacters)
  /\ ~HasError(ret.errors, "out-of-range")
  /\ ~HasError(ret.errors, "same")
  /\ HasError(ret.errors, "duplicate")

\* wiring holds every value of 0..n-1 exactly once
IsBijection(wiring, n) ==
  /\ Len(wiring) = n
  /\ \A v \in 0..(n - 1) : Cardinality({ i \in 1..n : wiring[i] = v }) = 1

C15_MachineValidate ==
  IsCall("Machine.validate") =>
    LET m  == pre
        ok == /\ m.reflector # <<>>
              /\ IsBijection(m.reflector[1].wiring, m.reflector[1].numCharacters)
              /\ m.reflector[1].numCharacters = m.numCharacters
              /\ IsBijection(m.entryWheel.mapping, m.entryWheel.numCharacters)
              /\ m.entryWheel.numCharacters = m.numCharacters
              /\ \A i \in 1..Len(m.wheels) :
                   /\ IsBijection(m.wheels[i].wiring, m.wheels[i].numCharacters)
                   /\ m.wheels[i].numCharacters = m.numCharacters
              /\ m.plugboard # <<>> =>
                   /\ IsValidPlugSet(m.plugboard[1].plugs, m.plugboard[1].numCharacters)
                   /\ m.plugboard[1].numCharacters = m.numCharacters
    IN  /\ ret.kind = "ok"
        /\ ret.errors = <<>> <=> ok
        /\ m.reflector = <<>> => HasError(ret.errors, "ukw-missing")

\* C16: circular(v, N) is in 0..N-1 for every integer v and every N > 0, is
\* the same for v and v + k*N, and throws for N <= 0.
C16_Circular ==
  IsCall("circular") =>
    /\ op.max > 0 =>
         /\ ret.kind = "ok"
         /\ ret.index \in 0..(op.max - 1)
         /\ \A k \in -2..2 : circularCall(op.val + k * op.max, op.max).value = ret.index
    /\ op.max <= 0 => ret.kind = "throw"

\* a negative value wrapped into the range
C16_Witness ==
  /\ IsCall("circular")
  /\ op.val < -op.max /\ op.max > 1
  /\ ret.kind = "ok" /\ ret.index > 0

\* C17: wheel additive stepping.  From any position, advance(a) followed by
\* advance(b) leaves the wheel where a single advance(a + b) leaves it, for
\* negative steps and steps beyond N as well.
C17_AdditiveStepping ==
  IsCall("Wheel.advance") =>
    \A b \in StepCounts \cup {0, 1} :
      WheelAdvance(machine.wheels[op.wheel], b).position =
        WheelAdvance(pre.wheels[op.wheel], op.steps + b).position

\* a step backwards from position 0
C17_Witness ==
  /\ IsCall("Wheel.advance")
  /\ op.steps < 0
  /\ pre.wheels[op.wheel].position = 0
  /\ machine.wheels[op.wheel].position = pre.wheels[op.wheel].numCharacters - 1

\* C18: Wheel.encode(index) returns wiring[(index + position + ringSetting)
\* mod N]: the wired output at the offset input, not the offset input.
C18_WheelEncode ==
  IsCall("Wheel.encode") =>
    LET whl == pre.wheels[op.wheel]
    IN  ret.index =
          whl.wiring[circular(op.index + whl.position + whl.ringSetting,
                              whl.numCharacters) + 1]

InRange(x, n) == x \in 0..(n - 1)

\* C19: in every state reached by setup, advance with any step count,
\* assignments to position and processCharacter, each wheel's position,
\* ringSetting and startingPosition and the reflector's position and
\* startingPosition are in 0..N-1.
C19_InRange ==
  /\ \A i \in 1..Len(machine.wheels) :
       /\ InRange(machine.wheels[i].position, machine.wheels[i].numCharacters)
       /\ InRange(machine.wheels[i].ringSetting, machine.wheels[i].numCharacters)
       /\ InRange(machine.wheels[i].startingPosition, machine.wheels[i].numCharacters)
  /\ machine.reflector # <<>> =>
       /\ InRange(machine.reflector[1].position, machine.reflector[1].numCharacters)
       /\ InRange(machine.reflector[1].startingPosition, machine.reflector[1].numCharacters)

\* a setup with a ring setting beyond N and a negative starting position
C19_Witness ==
  /\ IsCall("Wheel.setup")
  /\ op.ringSetting >= machine.wheels[op.wheel].numCharacters
  /\ op.startingPosition < 0
  /\ machine.wheels[op.wheel].ringSetting # op.ringSetting
  /\ machine.wheels[op.wheel].position # op.startingPosition

\* C20: the constructors of Wheel, Reflector, Stator and Plugboard throw, and
\* give no component, for an empty label and for a character count <= 0, and
\* those of the wired components for a wiring or display that is no array or
\* of another length than the character count.
C20_ConstructorFails ==
  /\ (op.name \in {"new Wheel", "new Reflector", "new Stator", "new Plugboard"}
        /\ (op.label = "" \/ op.numChars <= 0)) =>
       (ret.kind = "throw" /\ ret.made = <<>>)
  /\ (op.name \in {"new Wheel", "new Reflector", "new Stator"}
        /\ (op.wiring = <<>> \/ Len(op.wiring[1]) # op.numChars)) =>
       (ret.kind = "throw" /\ ret.made = <<>>)
  /\ (IsCall("new Wheel")
        /\ (op.display = <<>> \/ Len(op.display[1]) # op.numChars)) =>
       (ret.kind = "throw" /\ ret.made = <<>>)


----------------------------------------------------------------------------
(* Properties of the machine under Spec, continued *)

\* the positions of the wheels and of the reflector, if there is one
RotorPositions(m) ==
  [wheels    |-> [i \in 1..Len(m.wheels) |-> m.wheels[i].position],
   reflector |-> [i \in 1..Len(m.reflector) |-> m.reflector[i].position]]

\* the positions k keypresses after those of m, by the stepping rule alone:
\* wheel 0 always moves, another wheel moves when it stands at one of its
\* notches, the reflector moves when it is a rotating one
RECURSIVE SteppedOnly(_, _)
SteppedOnly(m, k) ==
  IF k = 0 THEN RotorPositions(m)
  ELSE LET p == SteppedOnly(m, k - 1)
       IN  [wheels    |-> [i \in 1..Len(m.wheels) |->
                             IF i = 1 \/ p.wheels[i] \in m.wheels[i].notches
                               THEN (p.wheels[i] + 1) % m.wheels[i].numCharacters
                               ELSE p.wheels[i]],
            reflector |-> [i \in 1..Len(m.reflector) |->
                             IF m.reflector[i].moving
                               THEN (p.reflector[i] + 1) % m.reflector[i].numCharacters
                               ELSE p.reflector[i]]]

\* C21: the rotor positions do not depend on the plaintext.  After each of
\* the characters of a message that is processed, the wheel and reflector
\* positions are those that any other processed message of the same length
\* leaves on a machine started in the same state, and are the positions the
\* stepping rule alone gives for that number of keypresses.
C21_PositionsIndependent ==
  ProcessedMessage =>
    /\ RotorPositions(machine) = SteppedOnly(pre, Len(op.msg))
    /\ \A k \in 0..Len(op.msg) :
         LET here == RotorPositions(AfterCalls(pre, op.msg, op.unknownAs, k))
         IN  /\ here = SteppedOnly(pre, k)
             /\ \A other \in Messages, unknownAs \in UnknownAs :
                  (Len(other) = Len(op.msg)
                     /\ ~processMessage(pre, other, unknownAs).thrown) =>
                    RotorPositions(AfterCalls(pre, other, unknownAs, k)) = here

\* a message of full length on a machine with two wheels, the second at a
\* notch, and a rotating reflector, where another message of that length
\* gives another ciphertext
C21_Witness ==
  /\ ProcessedMessage
  /\ Len(op.msg) = MaxMsgLen
  /\ Len(pre.wheels) = 2
  /\ atNotch(pre.wheels[2])
  /\ pre.reflector[1].moving
  /\ RotorPositions(machine) # RotorPositions(pre)
  /\ \E other \in Messages :
       LET r == processMessage(pre, other, op.unknownAs)
       IN  Len(other) = Len(op.msg) /\ ~r.thrown /\ r.value # ret.value

----------------------------------------------------------------------------
(* Properties of the components under BenchSpec, continued *)

\* x modulo n, in 0..n-1
Mod(x, n) == ((x % n) + n) % n

\* C22: two-phase lifecycle.  A Wheel or Reflector that has just been
\* constructed is at position 0 and not set up; Wheel.setup(r, s) leaves
\* ringSetting r mod N, startingPosition and position s mod N and isSetup
\* true; Reflector.setup(s) leaves startingPosition and position s mod N and
\* isSetup true.
C22_Lifecycle ==
  /\ (IsCall("new Wheel") \/ IsCall("new Reflector")) =>
       \A k \in 1..Len(ret.made) :
         ret.made[k].position = 0 /\ ret.made[k].init = FALSE
  /\ IsCall("Wheel.setup") =>
       LET whl == machine.wheels[op.wheel]
       IN  /\ whl.ringSetting = Mod(op.ringSetting, whl.numCharacters)
           /\ whl.startingPosition = Mod(op.startingPosition, whl.numCharacters)
           /\ whl.position = Mod(op.startingPosition, whl.numCharacters)
           /\ whl.init = TRUE
  /\ IsCall("Reflector.setup") =>
       LET ukw == machine.reflector[1]
       IN  /\ ukw.startingPosition = Mod(op.startPosition, ukw.numCharacters)
           /\ ukw.position = Mod(op.startPosition, ukw.numCharacters)
           /\ ukw.init = TRUE

\* C23: Wheel.advance(steps) returns the wheel's new position, which is
\* (old position + steps) mod N, and changes nothing but that position:
\* ring setting, starting position, wiring and notches of the wheel and
\* everything else in the machine are as before, at a notch or not.
C23_AdvanceFrame ==
  IsCall("Wheel.advance") =>
    LET old == pre.wheels[op.wheel]
        to  == Mod(old.position + op.steps, old.numCharacters)
    IN  /\ ret.returned = <<to>>
        /\ machine = [pre EXCEPT !.wheels[op.wheel].position = to]

\* C24: Reflector.advance(steps) moves a reflector constructed with
\* moving = true to (position + steps) mod N and leaves any other reflector
\* where it is; it returns the position the reflector has after the call and
\* changes nothing else.
C24_ReflectorAdvance ==
  IsCall("Reflector.advance") =>
    LET old == pre.reflector[1]
        to  == IF old.moving
                 THEN Mod(old.position + op.steps, old.numCharacters)
                 ELSE old.position
    IN  /\ machine = [pre EXCEPT !.reflector[1].position = to]
        /\ ret.index = to

\* a reflector constructed without the flag, standing away from 0, is asked
\* to advance by a number of steps that is no multiple of N
C24_Witness ==
  /\ IsCall("Reflector.advance")
  /\ ~pre.reflector[1].moving
  /\ pre.reflector[1].position # 0
  /\ Mod(op.steps, pre.reflector[1].numCharacters) # 0
  /\ ret.index = pre.reflector[1].position

\* Machine.validate finds no defect in m: none of its checks adds an Error
\* to the list.  (For such a machine the call itself ends in the TypeError
\* of C15 instead of returning the empty list.)
NoDefects(m) ==
  /\ m.entryWheel.numCharacters = m.numCharacters
  /\ StatorValidate(m.entryWheel) = <<>>
  /\ WheelErrorsFrom(m, 1) = <<>>
  /\ m.reflector # <<>>
  /\ m.reflector[1].numCharacters = m.numCharacters
  /\ ReflectorValidate(m.reflector[1]) \in { <<>>, << <<>> >> }
  /\ m.plugboard # <<>> =>
       /\ m.plugboard[1].numCharacters = m.numCharacters
       /\ PlugboardValidate(m.plugboard[1]) = <<>>

\* the index after each stage of the signal path of m, in order: plugboard,
\* entry wheel, each wheel, reflector, each wheel in reverse, entry wheel,
\* plugboard
SignalIndices(m, index) ==
  LET n   == Len(m.wheels)
      a0  == ViaPlugboard(m, index)
      a1  == StatorEncode(m.entryWheel, a0)
      fwd == [j \in 1..n |-> ThroughWheels(m.wheels, [k \in 1..j |-> k], a1)]
      b   == IF n = 0 THEN a1 ELSE fwd[n]
      c   == ReflectorEncode(m.reflector[1], b)
      bwd == [j \in 1..n |-> ThroughWheels(m.wheels, [k \in 1..j |-> n + 1 - k], c)]
      d   == IF n = 0 THEN c ELSE bwd[n]
      e   == StatorEncode(m.entryWheel, d)
  IN  <<a0, a1>> \o fwd \o <<c>> \o bwd \o <<e, ViaPlugboard(m, e)>>

\* C25: on a machine in which validate finds no defect, every index that
\* processCharacter computes on the way (after the plugboard, the entry
\* wheel, each wheel pass and the reflector) is in 0..N-1, in every rotor
\* state; the returned symbol is the alphabet's symbol at the last of them,
\* so it is never the fallback taken for an index out of range.
C25_IndicesInRange ==
  (ProcessedCharacter /\ NoDefects(pre)) =>
    LET i    == getCharacterIndex(pre.alphabet, <<op.char>>, op.unknownAs).value
        path == SignalIndices(machine, i)
    IN  /\ \A k \in 1..Len(path) : path[k] \in 0..(N - 1)
        /\ ret.value = <<machine.alphabet[path[Len(path)] + 1]>>
        /\ InAlphabet(machine, ret.value)

\* a valid machine with a wheel that has been set up away from 0 and a
\* plugboard, typed on with a fallback symbol that is not in the alphabet
C25_Witness ==
  /\ ProcessedCharacter
  /\ NoDefects(pre)
  /\ Len(pre.wheels) > 0
  /\ pre.wheels[1].ringSetting # 0
  /\ pre.wheels[1].position + pre.wheels[1].ringSetting >= N
  /\ pre.plugboard # <<>> /\ pre.plugboard[1].plugs # <<>>
  /\ ~InAlphabet(pre, op.unknownAs)

\* the one-character string s is a symbol of the alphabet alpha
OccursIn(alpha, s) == Len(s) = 1 /\ \E a \in 1..Len(alpha) : alpha[a] = s[1]

\* C26: getCharacterIndex fails exactly when neither the input symbol,
\* upper-cased, nor the fallback symbol occurs in the alphabet; otherwise it
\* returns an index in 0..N-1 at which the alphabet holds the upper-cased
\* input symbol or, when that is absent, the fallback symbol.
C26_GetCharacterIndex ==
  IsCall("getCharacterIndex") =>
    LET alpha  == machine.alphabet
        symbol == toUpperCase(<<op.char>>)
    IN  /\ ret.kind = "throw" <=>
             (~OccursIn(alpha, symbol) /\ ~OccursIn(alpha, op.unknownAs))
        /\ ret.kind = "ok" =>
             /\ ret.index \in 0..(Len(alpha) - 1)
             /\ <<alpha[ret.index + 1]>> =
                  IF OccursIn(alpha, symbol) THEN symbol ELSE op.unknownAs

----------------------------------------------------------------------------
(* Properties of the machine under Spec, continued *)

----------------------------------------------------------------------------
(* Properties of the plugboard under PlugSpec *)

\* C28: on a plugboard that started without plugs, after any addPlug calls,
\* accepted or refused, and any reset calls, validate reports no defect:
\* every stored pair is in range and joins two different symbols, and no
\* symbol is in more than one pair.
C28_PlugboardStaysValid ==
  LET pb == machine.plugboard[1]
  IN  /\ PlugboardValidate(pb) = <<>>
      /\ IsValidPlugSet(pb.plugs, pb.numCharacters)
      /\ IsCall("Plugboard.validate") => ret.errors = <<>>

\* a board with every symbol plugged refuses one more plug
C28_Witness ==
  /\ IsCall("Plugboard.addPlug")
  /\ ret.kind = "error"
  /\ 2 * Len(pre.plugboard[1].plugs) = pre.plugboard[1].numCharacters
  /\ op.fromIndex \in 0..(N - 1) /\ op.toIndex \in 0..(N - 1)
  /\ op.fromIndex # op.toIndex
  /\ machine = pre

----------------------------------------------------------------------------
(* Properties of the components under BenchSpec, continued *)

\* what processCharacter returns for the alphabet's symbol at place a, typed
\* on the machine m
KeyOutput(m, a, unknownAs) == processCharacter(m, <<m.alphabet[a]>>, unknownAs).value

\* C29: on a machine in which validate finds no defect, in any rotor state,
\* processCharacter maps different symbols of the alphabet to different
\* symbols of the alphabet: the substitution of one keypress is a bijection
\* on the alphabet.
C29_KeypressBijection ==
  (ProcessedCharacter /\ NoDefects(pre)) =>
    /\ \A a, b \in 1..Len(pre.alphabet) :
         a # b => KeyOutput(pre, a, op.unknownAs) # KeyOutput(pre, b, op.unknownAs)
    /\ \A a \in 1..Len(pre.alphabet) : InAlphabet(pre, KeyOutput(pre, a, op.unknownAs))
    /\ \A a \in 1..Len(pre.alphabet) :
         toUpperCase(<<op.char>>) = <<pre.alphabet[a]>> =>
           ret.value = KeyOutput(pre, a, op.unknownAs)

\* a symbol of the alphabet typed on a valid machine with a plug, a wheel
\* away from 0 and a reflector away from 0, where the substitution moves
\* some symbol and leaves another fixed
C29_Witness ==
  /\ ProcessedCharacter
  /\ NoDefects(pre)
  /\ InAlphabet(pre, <<op.char>>)
  /\ Len(pre.wheels) > 0 /\ pre.wheels[1].position # 0
  /\ pre.reflector[1].position # 0
  /\ pre.plugboard # <<>> /\ pre.plugboard[1].plugs # <<>>
  /\ \E a, b \in 1..Len(pre.alphabet) :
       /\ KeyOutput(pre, a, op.unknownAs) # <<pre.alphabet[a]>>
       /\ KeyOutput(pre, b, op.unknownAs) = <<pre.alphabet[b]>>

----------------------------------------------------------------------------
(* Properties of the machine under Spec, continued *)

\* neither the symbol at place j of msg nor the fallback is in m's alphabet
Unresolved(m, msg, unknownAs, j) ==
  getCharacterIndex(m.alphabet, ToUpperCaseChar(msg[j]), unknownAs).thrown

\* C30: processMessage is not rolled back.  When it fails at the symbol at
\* 0-based offset k because neither that symbol nor the fallback is in the
\* alphabet, the machine is left as the calls for the k symbols before it
\* left it: wheel 0 stands k steps (mod N) on from its position before the
\* call, and the failing symbol has moved nothing.
C30_NoRollback ==
  op.name = "processMessage" =>
    \A j \in 1..Len(op.msg) :
      ( /\ pre.reflector # <<>>
        /\ Unresolved(pre, op.msg, op.unknownAs, j)
        /\ \A i \in 1..(j - 1) : ~Unresolved(pre, op.msg, op.unknownAs, i) ) =>
          /\ ret.kind = "throw"
          /\ machine = AfterCalls(pre, op.msg, op.unknownAs, j - 1)
          /\ Len(pre.wheels) > 0 =>
               machine.wheels[1].position =
                 (pre.wheels[1].position + (j - 1)) % pre.wheels[1].numCharacters

\* a message whose last symbol fails after the symbols before it have moved
\* wheel 0 and a second wheel that stood at a notch
C30_Witness ==
  /\ op.name = "processMessage"
  /\ ret.kind = "throw"
  /\ pre.reflector # <<>>
  /\ Len(pre.wheels) = 2
  /\ Len(op.msg) = MaxMsgLen
  /\ Unresolved(pre, op.msg, op.unknownAs, Len(op.msg))
  /\ \A i \in 1..(Len(op.msg) - 1) : ~Unresolved(pre, op.msg, op.unknownAs, i)
  /\ machine.wheels[1].position # pre.wheels[1].position
  /\ machine.wheels[2].position # pre.wheels[2].position

====
